---- MODULE Spec2Model ----
(***************************************************************************)
(* Model of src/app.py, the "Full Foundation Design" mode (Monte Carlo     *)
(* reliability study) of the Streamlit foundation design tool, with the    *)
(* four formula functions and the width-list parser it calls.              *)
(*                                                                         *)
(* Numbers.  Python floats are modelled as exact rationals <<n, d>> in     *)
(* lowest terms with d > 0; a float division by zero is the one float      *)
(* operation that raises, and every division site of the source is         *)
(* modelled with its zero test.  Rounding of the last binary digit is not  *)
(* modelled.  The bearing capacity factors, which the source computes      *)
(* with exp and tan, are tabulated to two decimals for the friction        *)
(* angles the model draws.                                                 *)
(*                                                                         *)
(* Random source.  random.Random(seed) is a deterministic generator: a     *)
(* state fixed by the seed, advanced by every draw.  The model keeps that  *)
(* structure with a small linear congruential generator.                   *)
(*                                                                         *)
(* Text.  A text is a sequence of one-character strings, so that split,    *)
(* strip and float are computed character by character.                    *)
(*                                                                         *)
(* Session.  The iterations slider (50 to 2000 in the source) is scaled    *)
(* down to 1..MaxIter.  The sidebar values other than the width text stay  *)
(* as they are over a session; the width text is read anew by every run.   *)
(***************************************************************************)
EXTENDS Integers, Sequences, FiniteSets, TLC

VARIABLES
    \* sidebar widgets the model keeps fixed over a session (lines 205-237)
    iterations, seed, phi, H, M, Es, g_var, P_var, Es_var,
    \* st.session_state
    session_state,
    \* the script run: position, error shown, the text read from the width
    \* widget (line 227) and the handler's locals
    pc, err, B_text, B_list, bad, rng, results, i, B, safe_count, t,
    gamma_r, Es_r, P_r, passes

widgets == <<iterations, seed, phi, H, M, Es, g_var, P_var, Es_var>>
locals == <<B_text, B_list, bad, rng, results, i, B, safe_count, t, gamma_r, Es_r, P_r, passes>>
vars == <<widgets, session_state, pc, err, locals>>

----------------------------------------------------------------------------
\* Bounds of the model

\* largest number of trials per width
MaxIter == 2
\* largest number of comma-separated tokens in the width text
MaxTokens == 2
\* modulus of the model's random generator
RngMod == 8

----------------------------------------------------------------------------
\* Rational arithmetic (Python float arithmetic, exact)

Abs(n) == IF n < 0 THEN -n ELSE n

RECURSIVE GCD(_, _)
GCD(a, b) == IF b = 0 THEN a ELSE GCD(b, a % b)

\* n/d in lowest terms, d # 0
R(n, d) ==
    LET g == GCD(Abs(n), Abs(d))
        s == IF d < 0 THEN -1 ELSE 1
    IN  <<(s * n) \div g, (s * d) \div g>>

Num(n) == <<n, 1>>
RAdd(x, y) == R(x[1] * y[2] + y[1] * x[2], x[2] * y[2])
RSub(x, y) == R(x[1] * y[2] - y[1] * x[2], x[2] * y[2])
RMul(x, y) == R(x[1] * y[1], x[2] * y[2])
\* y # 0; the callers test for zero where Python would raise
RDiv(x, y) == R(x[1] * y[2], x[2] * y[1])
RLe(x, y) == x[1] * y[2] <= y[1] * x[2]
RLt(x, y) == x[1] * y[2] < y[1] * x[2]
RGe(x, y) == RLe(y, x)
IsZero(x) == x[1] = 0

----------------------------------------------------------------------------
\* Configuration (lines 10-13) and the widget values the model keeps at
\* their defaults

default_FS_bearing == 3
FS_slide_req == R(3, 2)
FS_ot_req == 2
settle_limit == 25

L == 2
Df == 1
c == 20
gamma == 18
P == 500
nu == R(3, 10)
mu == R(1, 2)
I == 1
FS_bearing == default_FS_bearing

----------------------------------------------------------------------------
\* Formula functions (lines 19-50)

Nc == R(257, 50)

\* math.exp(math.pi * tan(phi)) * tan(45 + phi/2)^2, to two decimals
NqTable(phi0) == IF phi0 = 30 THEN R(1840, 100) ELSE R(100, 100)
\* math.tan(math.radians(phi)) folded into Ngamma = 2 (Nq + 1) tan(phi), to two decimals
NgammaTable(phi0) == IF phi0 = 30 THEN R(2240, 100) ELSE R(0, 1)

Nq(phi0) == IF phi0 > 0 THEN NqTable(phi0) ELSE Num(1)
Ngamma(phi0) == IF phi0 > 0 THEN NgammaTable(phi0) ELSE Num(0)

bearing_capacity_q_ult(c0, gamma0, Df0, B0, phi0) ==
    RAdd(RAdd(RMul(c0, Nc), RMul(RMul(gamma0, Df0), Nq(phi0))),
         RMul(RMul(RMul(R(1, 2), gamma0), B0), Ngamma(phi0)))

sliding_fs(P0, H0, mu0) ==
    IF ~IsZero(H0) THEN RDiv(RMul(P0, mu0), H0) ELSE Num(999)

overturning_fs(P0, B0, M0) ==
    LET MR == RMul(P0, RDiv(B0, Num(2)))
        MO == M0
    IN  IF ~IsZero(MO) THEN RDiv(MR, MO) ELSE Num(999)

settlement_elastic(P0, B0, L0, Es0, nu0, influence_I) ==
    LET A == RMul(B0, L0)
        q == RDiv(P0, A)
    IN  RDiv(RMul(RMul(RMul(influence_I, q), B0), RSub(Num(1), RMul(nu0, nu0))), Es0)

----------------------------------------------------------------------------
\* Width text parsing (lines 53-63)

Digits == {"0", "1", "2", "3", "4", "5", "6", "7", "8", "9"}
DigitVal(ch) ==
    CASE ch = "0" -> 0 [] ch = "1" -> 1 [] ch = "2" -> 2 [] ch = "3" -> 3
      [] ch = "4" -> 4 [] ch = "5" -> 5 [] ch = "6" -> 6 [] ch = "7" -> 7
      [] ch = "8" -> 8 [] ch = "9" -> 9

IsDigit(ch) == ch \in Digits
IsDot(ch) == ch = "."
IsSpace(ch) == ch = " "

\* str.split(","): the pieces between commas, always at least one
RECURSIVE Split(_)
Split(text) ==
    IF \A k \in 1..Len(text) : text[k] # ","
    THEN <<text>>
    ELSE LET k == CHOOSE k \in 1..Len(text) :
                      text[k] = "," /\ \A j \in 1..(k - 1) : text[j] # ","
         IN  <<SubSeq(text, 1, k - 1)>> \o Split(SubSeq(text, k + 1, Len(text)))

\* str.strip(): leading and trailing whitespace removed
RECURSIVE Strip(_)
Strip(s) ==
    IF s = <<>> THEN s
    ELSE IF IsSpace(s[1]) THEN Strip(Tail(s))
    ELSE IF IsSpace(s[Len(s)]) THEN Strip(SubSeq(s, 1, Len(s) - 1))
    ELSE s

Unsigned(s) == IF s # <<>> /\ s[1] \in {"-", "+"} THEN Tail(s) ELSE s

\* whether float(s) succeeds, for a stripped s over the model's alphabet:
\* an optional sign, then digits with at most one point and at least one digit
FloatOk(s) ==
    LET body == Unsigned(s)
    IN  /\ \A k \in 1..Len(body) : IsDigit(body[k]) \/ IsDot(body[k])
        /\ Len(SelectSeq(body, IsDot)) <= 1
        /\ Len(SelectSeq(body, IsDigit)) >= 1

RECURSIVE DigitsValue(_)
DigitsValue(ds) ==
    IF ds = <<>> THEN 0
    ELSE 10 * DigitsValue(SubSeq(ds, 1, Len(ds) - 1)) + DigitVal(ds[Len(ds)])

RECURSIVE Pow10(_)
Pow10(n) == IF n = 0 THEN 1 ELSE 10 * Pow10(n - 1)

\* float(s) for a stripped s with FloatOk(s)
FloatValue(s) ==
    LET body == Unsigned(s)
        dot == IF \E k \in 1..Len(body) : IsDot(body[k])
               THEN CHOOSE k \in 1..Len(body) : IsDot(body[k])
               ELSE Len(body) + 1
        frac == IF dot > Len(body) THEN 0 ELSE Len(body) - dot
        sign == IF s[1] = "-" THEN -1 ELSE 1
    IN  R(sign * DigitsValue(SelectSeq(body, IsDigit)), Pow10(frac))

\* the loop of lines 58-62 over the pieces, appending to numbers or to bad
RECURSIVE float_loop(_, _, _)
float_loop(parts, numbers, bad0) ==
    IF parts = <<>> THEN <<numbers, bad0>>
    ELSE LET x == Strip(Head(parts))
         IN  IF FloatOk(x)
             THEN float_loop(Tail(parts), Append(numbers, FloatValue(x)), bad0)
             ELSE float_loop(Tail(parts), numbers, Append(bad0, x))

\* Faulty variant of safe_float_list: a malformed token ends the parse
safe_float_list_abort(text) ==
    LET parts == Split(text)
    IN  IF \E k \in 1..Len(parts) : ~FloatOk(Strip(parts[k]))
        THEN <<<<>>, <<>>>>
        ELSE float_loop(parts, <<>>, <<>>)

safe_float_list(text) == float_loop(Split(text), <<>>, <<>>)

----------------------------------------------------------------------------
\* Random source (lines 245, 253-255)

NoRng == -1

\* random.Random(seed): the generator state the seed fixes
Random(seed0) == seed0 % RngMod

\* the state after one draw
Advance(s) == (5 * s + 3) % RngMod

\* random(): the value in [0, 1) of the draw that leaves the generator in state s
random(s) == R(s, RngMod)

\* uniform(a, b) = a + (b - a) * random()
uniform(a, b, r) == RAdd(a, RMul(RSub(b, a), r))

\* Faulty variant of Perturb: a fixed 10 % spread whatever the slider says
Perturb_fixed_spread(nominal, var, r) ==
    RMul(nominal, uniform(R(90, 100), R(110, 100), r))

\* nominal * rng.uniform(1 - var / 100, 1 + var / 100)
Perturb(nominal, var, r) ==
    RMul(nominal, uniform(RSub(Num(1), R(var, 100)), RAdd(Num(1), R(var, 100)), r))

----------------------------------------------------------------------------
\* One trial (lines 253-276), given the three draws

\* Faulty variant of trial_passes: the overturning check is left out
trial_passes_no_overturning(q_allow, q_apply, FSs, FSo, s) ==
    /\ RGe(q_allow, q_apply)
    /\ RGe(FSs, FS_slide_req)
    /\ RLe(s, Num(settle_limit))

\* lines 271-276
trial_passes(q_allow, q_apply, FSs, FSo, s) ==
    /\ RGe(q_allow, q_apply)
    /\ RGe(FSs, FS_slide_req)
    /\ RGe(FSo, Num(FS_ot_req))
    /\ RLe(s, Num(settle_limit))

\* lines 258-276 for the sampled values; B0 * L # 0
evaluate_trial(gamma_r0, Es_r0, P_r0, B0) ==
    LET q_ult == bearing_capacity_q_ult(Num(c), gamma_r0, Num(Df), B0, phi)
        q_allow == RDiv(q_ult, Num(FS_bearing))
        q_apply == RDiv(P_r0, RMul(B0, Num(L)))
        FSs == sliding_fs(P_r0, Num(H), mu)
        FSo == overturning_fs(P_r0, B0, Num(M))
        s == RMul(settlement_elastic(P_r0, B0, Num(L), Es_r0, nu, Num(I)), Num(1000))
    IN  trial_passes(q_allow, q_apply, FSs, FSo, s)

\* Faulty variant of initial_safe_count: the count is carried over from the
\* previous width
stale_safe_count == safe_count

\* line 250
initial_safe_count == 0

\* line 281; iterations0 # 0
safety_percent(safe_count0, iterations0) ==
    RMul(R(safe_count0, iterations0), Num(100))

\* Faulty variant of append_result: the newest result is put first
prepend_result(results0, entry) == <<entry>> \o results0

\* line 282
append_result(results0, entry) == Append(results0, entry)

\* Faulty variant of new_rng: the seed widget is not the only thing the
\* generator state depends on (here: whether a result is already stored)
new_rng_unseeded == Random(seed + Cardinality(DOMAIN session_state))

\* line 245
new_rng == Random(seed)

\* Faulty variant of list_invalid: the empty list is let through
list_invalid_never(B_list0) == FALSE

\* line 242: if not B_list
list_invalid(B_list0) == B_list0 = <<>>

----------------------------------------------------------------------------
\* Inputs of the model

\* the width tokens the user types: a borderline width, a width with blanks
\* around it, a malformed token, a negative width, a zero width, nothing
Tokens ==
    { <<"1", ".", "2">>, <<" ", "2", " ">>, <<"a">>, <<"-", "2">>, <<"0">>, <<>> }

RECURSIVE Join(_)
Join(toks) ==
    IF Len(toks) = 1 THEN toks[1]
    ELSE toks[1] \o <<",">> \o Join(Tail(toks))

Texts == { Join(ts) : ts \in UNION { [1..n -> Tokens] : n \in 1..MaxTokens } }

\* the default of the text widget (line 227)
DefaultText == <<"1", ".", "5", ",", "2", ".", "0", ",", "2", ".", "5">>

Seeds == {42, 7}
FrictionAngles == {0, 30}
\* <<H, M, Es>>: a footing whose sliding and overturning checks are near their
\* limits on stiff soil, and one with no horizontal load or moment on soil
\* whose settlement is near its limit
LoadCases == {<<160, 150, 30000>>, <<0, 0, 9000>>}
\* <<g_var, P_var, Es_var>>: no uncertainty, and the sliders' defaults
UncertaintyCases == {<<0, 0, 0>>, <<10, 10, 15>>}

NoValue == <<0, 1>>

----------------------------------------------------------------------------
\* The script

Widths(res) == [k \in 1..Len(res) |-> res[k][1]]

\* the numbers each text of the model parses to
AllTexts == Texts \cup {DefaultText}
Numbers == [text \in AllTexts |-> safe_float_list(text)[1]]

\* The texts the model's user runs: any text while no result is stored; once
\* one is, a text holding the stored widths again, or a text holding no number
Typed ==
    IF session_state = <<>> THEN AllTexts
    ELSE { text \in AllTexts :
             Numbers[text] = <<>> \/ Numbers[text] = Widths(session_state["mc"]) }

\* no script run is in progress: nothing is bound
NoLocals(tx, bl, bd, rg, rs, ix, bw, sc, tc, gr, er, pr, ps) ==
    /\ tx = <<>>
    /\ bl = <<>>
    /\ bd = <<>>
    /\ rg = NoRng
    /\ rs = <<>>
    /\ ix = -1
    /\ bw = NoValue
    /\ sc = 0
    /\ tc = 0
    /\ gr = NoValue
    /\ er = NoValue
    /\ pr = NoValue
    /\ ps = FALSE

InitWith(Iterations) ==
    /\ iterations \in Iterations
    /\ seed \in Seeds
    /\ phi \in FrictionAngles
    /\ \E lc \in LoadCases : H = lc[1] /\ M = lc[2] /\ Es = lc[3]
    /\ \E uc \in UncertaintyCases : g_var = uc[1] /\ P_var = uc[2] /\ Es_var = uc[3]
    /\ session_state = <<>>
    /\ pc = "idle"
    /\ err = "none"
    /\ NoLocals(B_text, B_list, bad, rng, results, i, B, safe_count, t,
                gamma_r, Es_r, P_r, passes)

\* the slider gives a positive number of iterations (line 228)
Init == InitWith(1..MaxIter)

\* the width loop entered with any number of iterations
InitAnyIterations == InitWith(-1..MaxIter)

\* The user presses "Run Full Foundation Design" with `text` in the width
\* widget: lines 240-247
Click(text) ==
    /\ pc = "idle"
    /\ B_text' = text
    /\ LET parsed == safe_float_list(text)
       IN  /\ B_list' = parsed[1]
           /\ bad' = parsed[2]
           /\ IF list_invalid(parsed[1])
              THEN /\ err' = "Invalid B list!"
                   /\ pc' = "stop"
                   /\ UNCHANGED <<rng, results>>
              ELSE /\ err' = "none"
                   /\ pc' = "width"
                   /\ rng' = new_rng
                   /\ results' = <<>>
    /\ UNCHANGED <<widgets, session_state, i, B, safe_count, t, gamma_r, Es_r, P_r, passes>>

\* for i, B in enumerate(B_list): the next width (lines 249-250)
NextWidth ==
    /\ pc = "width"
    /\ i + 1 < Len(B_list)
    /\ i' = i + 1
    /\ B' = B_list[i + 2]
    /\ safe_count' = initial_safe_count
    /\ t' = 0
    /\ pc' = "trial"
    /\ UNCHANGED <<widgets, session_state, err, B_text, B_list, bad, rng, results,
                   gamma_r, Es_r, P_r, passes>>

\* one pass of the trial loop (lines 252-279); the division of line 260
\* raises when B * L = 0 and the exception ends the script run
Trial ==
    /\ pc = "trial"
    /\ t < iterations
    /\ LET s1 == Advance(rng)
           s2 == Advance(s1)
           s3 == Advance(s2)
           g == Perturb(Num(gamma), g_var, random(s1))
           e == Perturb(Num(Es), Es_var, random(s2))
           p == Perturb(Num(P), P_var, random(s3))
       IN  /\ rng' = s3
           /\ gamma_r' = g
           /\ Es_r' = e
           /\ P_r' = p
           /\ IF IsZero(RMul(B, Num(L)))
              THEN /\ err' = "ZeroDivisionError"
                   /\ pc' = "stop"
                   /\ UNCHANGED <<passes, safe_count, t>>
              ELSE /\ passes' = evaluate_trial(g, e, p, B)
                   /\ safe_count' = IF passes' THEN safe_count + 1 ELSE safe_count
                   /\ t' = t + 1
                   /\ UNCHANGED <<pc, err>>
    /\ UNCHANGED <<widgets, session_state, B_text, B_list, bad, results, i, B>>

\* the trial loop is over: lines 281-284; the division of line 281 raises
\* when iterations = 0
EndWidth ==
    /\ pc = "trial"
    /\ ~(t < iterations)
    /\ IF iterations = 0
       THEN /\ err' = "ZeroDivisionError"
            /\ pc' = "stop"
            /\ UNCHANGED results
       ELSE /\ results' = append_result(results, <<B, safety_percent(safe_count, iterations)>>)
            /\ pc' = "width"
            /\ UNCHANGED err
    /\ UNCHANGED <<widgets, session_state, B_text, B_list, bad, rng, i, B, safe_count, t,
                   gamma_r, Es_r, P_r, passes>>

\* the width loop is over: line 286
Store ==
    /\ pc = "width"
    /\ ~(i + 1 < Len(B_list))
    /\ session_state' = [k \in {"mc"} |-> results]
    /\ pc' = "stop"
    /\ UNCHANGED <<widgets, err, locals>>

\* the script run is over: its names are gone, session_state stays
Finish ==
    /\ pc = "stop"
    /\ pc' = "idle"
    /\ err' = "none"
    /\ NoLocals(B_text', B_list', bad', rng', results', i', B', safe_count', t',
                gamma_r', Es_r', P_r', passes')
    /\ UNCHANGED <<widgets, session_state>>

Next ==
    \/ \E text \in Typed : Click(text)
    \/ NextWidth
    \/ Trial
    \/ EndWidth
    \/ Store
    \/ Finish

Spec == Init /\ [][Next]_vars

SpecAnyIterations == InitAnyIterations /\ [][Next]_vars

----------------------------------------------------------------------------
\* Properties

Stored == "mc" \in DOMAIN session_state
mc == session_state["mc"]

\* the four checks of a trial for the sampled values, each on its own
BearingOk(g, p, w) ==
    RGe(RDiv(bearing_capacity_q_ult(Num(c), g, Num(Df), w, phi), Num(FS_bearing)),
        RDiv(p, RMul(w, Num(L))))
SlidingOk(p) == RGe(sliding_fs(p, Num(H), mu), FS_slide_req)
OverturningOk(p, w) == RGe(overturning_fs(p, w, Num(M)), Num(FS_ot_req))
SettlementOk(e, p, w) ==
    RLe(RMul(settlement_elastic(p, w, Num(L), e, nu, Num(I)), Num(1000)), Num(settle_limit))

\* a step that evaluated a trial to its end
TrialStep == pc = "trial" /\ pc' = "trial" /\ t' = t + 1

\* C1: a trial adds one to the pass count if and only if the bearing, sliding,
\* overturning and settlement checks all pass for the values it sampled;
\* otherwise the count stays as it was.
C1_CountedIffAllFourPass ==
    [][TrialStep =>
        LET all == /\ BearingOk(gamma_r', P_r', B)
                   /\ SlidingOk(P_r')
                   /\ OverturningOk(P_r', B)
                   /\ SettlementOk(Es_r', P_r', B)
        IN  /\ passes' = all
            /\ all => safe_count' = safe_count + 1
            /\ ~all => safe_count' = safe_count]_vars

\* C1 witness: for one width, a trial that passed all four checks was counted
\* and a trial that failed only the overturning check was not.
C1_Witness ==
    /\ pc = "trial"
    /\ t = 2
    /\ safe_count = 1
    /\ ~passes
    /\ BearingOk(gamma_r, P_r, B)
    /\ SlidingOk(P_r)
    /\ ~OverturningOk(P_r, B)
    /\ SettlementOk(Es_r, P_r, B)

\* C2: the results hold one entry per width of the list, the k-th entry
\* carrying the k-th width, at every point of the run and in what is stored.
C2_OneResultPerWidthInOrder ==
    /\ Len(results) <= Len(B_list)
    /\ \A k \in 1..Len(results) : results[k][1] = B_list[k]
    /\ pc = "trial" => Len(results) = i
    /\ pc = "width" => Len(results) = i + 1
    /\ (pc = "stop" /\ err = "none") =>
          /\ Stored
          /\ Len(mc) = Len(B_list)
          /\ \A k \in 1..Len(B_list) : mc[k][1] = B_list[k]

\* C2 witness: a stored result for a list that is neither sorted nor free of
\* duplicates.
C2_Witness ==
    /\ pc = "stop"
    /\ err = "none"
    /\ Len(B_list) = 2
    /\ Len(mc) = 2
    /\ RLt(mc[2][1], mc[1][1])
    /\ session_state # <<>>

\* C3: the pass count starts at 0 for each width, never exceeds the number of
\* trials run, which never exceeds iterations; each percentage is
\* 100 * passCount / iterations and lies in [0, 100].
C3_CountAndPercent ==
    /\ pc = "trial" => /\ 0 <= safe_count
                       /\ safe_count <= t
                       /\ t <= iterations
    /\ (pc = "trial" /\ t = 0) => safe_count = 0
    /\ (pc = "width" /\ i >= 0) =>
          /\ t = iterations
          /\ results[i + 1] = <<B, R(100 * safe_count, iterations)>>
    /\ \A k \in 1..Len(results) :
          /\ RLe(Num(0), results[k][2])
          /\ RLe(results[k][2], Num(100))
          /\ \E n \in 0..iterations : results[k][2] = R(100 * n, iterations)

\* C3 witness: a second width whose percentage is strictly between 0 and 100
\* after a first width that had passes.
C3_Witness ==
    /\ pc = "width"
    /\ i = 1
    /\ RLt(Num(0), results[1][2])
    /\ RLt(Num(0), results[2][2])
    /\ RLt(results[2][2], Num(100))

RECURSIVE AdvanceN(_, _)
AdvanceN(s, n) == IF n = 0 THEN s ELSE AdvanceN(Advance(s), n - 1)

\* trials evaluated so far in the run
TrialsDone == i * iterations + t

\* C4: a run starts from the generator state the seed fixes and every trial
\* takes three draws, for unit weight, modulus and load in that order; a run
\* over the widths of the stored result, in a session whose seed, iterations
\* and parameters are unchanged, ends with the stored result again.
C4_SameSeedSameResults ==
    /\ (pc = "width" /\ i = -1) => rng = Random(seed)
    /\ pc = "trial" => rng = AdvanceN(Random(seed), 3 * TrialsDone)
    /\ (pc = "trial" /\ t >= 1) =>
          LET before == AdvanceN(Random(seed), 3 * (TrialsDone - 1))
          IN  /\ gamma_r = Perturb(Num(gamma), g_var, random(AdvanceN(before, 1)))
              /\ Es_r = Perturb(Num(Es), Es_var, random(AdvanceN(before, 2)))
              /\ P_r = Perturb(Num(P), P_var, random(AdvanceN(before, 3)))
    /\ (pc = "width" /\ ~(i + 1 < Len(B_list)) /\ Stored /\ Widths(mc) = B_list) =>
          results = mc

\* C4 witness: a second run over the same widths is about to store, and a
\* percentage strictly between 0 and 100 shows the draws mattered.
C4_Witness ==
    /\ pc = "width"
    /\ ~(i + 1 < Len(B_list))
    /\ Stored
    /\ Widths(mc) = B_list
    /\ \E k \in 1..Len(results) :
          RLt(Num(0), results[k][2]) /\ RLt(results[k][2], Num(100))

\* C5: the percentage of a width does not depend on its position in the list:
\* a width that occurs twice in a list gets the same percentage both times.
C5_NoCrossWidthInteraction ==
    \A j, k \in 1..Len(results) :
        results[j][1] = results[k][1] => results[j][2] = results[k][2]

\* C6: no trial of a width that is not positive is counted as passing, and no
\* result is produced for such a width.
C6_NonPositiveWidthRejected ==
    /\ (pc = "trial" /\ ~RLt(Num(0), B)) => safe_count = 0
    /\ \A k \in 1..Len(results) : RLt(Num(0), results[k][1])

NoNumber(text) ==
    \A k \in 1..Len(Split(text)) : ~FloatOk(Strip(Split(text)[k]))

\* C7: a press of the button on a text with no valid number shows the error
\* and ends the run: no generator is created, no width or trial is started,
\* no result is collected and session_state is left as it was.
C7_NoValidWidthNoRun ==
    [][(pc = "idle" /\ pc' # "idle" /\ NoNumber(B_text')) =>
        /\ pc' = "stop"
        /\ err' = "Invalid B list!"
        /\ rng' = NoRng
        /\ i' = -1
        /\ t' = 0
        /\ results' = <<>>
        /\ session_state' = session_state]_vars

\* C7 witness: the error is shown while an earlier result is still stored.
C7_Witness ==
    /\ pc = "stop"
    /\ err = "Invalid B list!"
    /\ NoNumber(B_text)
    /\ Stored
    /\ rng = NoRng

CommaCount(text) == Cardinality({k \in 1..Len(text) : text[k] = ","})
Stripped(parts) == [k \in 1..Len(parts) |-> Strip(parts[k])]
NotFloatOk(x) == ~FloatOk(x)

\* the text of the example: 1.5,2.0,abc,2.5
ExampleText ==
    <<"1", ".", "5", ",", "2", ".", "0", ",", "a", "b", "c", ",", "2", ".", "5">>

\* a run has parsed its text
Parsed == pc # "idle"

\* C8: every comma-separated token, trimmed, is in exactly one of the two
\* lists, the numbers in token order in one, the malformed tokens in token
\* order in the other; a run that goes on works on exactly the numbers.
C8_ParsePartition ==
    /\ Parsed =>
          LET tokens == Stripped(Split(B_text))
              good == SelectSeq(tokens, FloatOk)
          IN  /\ Len(tokens) = CommaCount(B_text) + 1
              /\ Len(B_list) + Len(bad) = Len(tokens)
              /\ B_list = [k \in 1..Len(good) |-> FloatValue(good[k])]
              /\ bad = SelectSeq(tokens, NotFloatOk)
              /\ \A k \in 1..Len(results) : results[k][1] = B_list[k]
              /\ (pc = "stop" /\ err = "none") => Widths(mc) = B_list
              /\ pc \in {"width", "trial"} => B_list # <<>>
    /\ safe_float_list(ExampleText) =
          << <<R(15, 10), R(2, 1), R(25, 10)>>, << <<"a", "b", "c">> >> >>

\* C8 witness: a result is stored for a text that held a malformed token
\* before a number.
C8_Witness ==
    /\ pc = "stop"
    /\ err = "none"
    /\ Stored
    /\ bad # <<>>
    /\ B_list # <<>>
    /\ ~FloatOk(Strip(Split(B_text)[1]))

ZeroUncertainty == g_var = 0 /\ P_var = 0 /\ Es_var = 0

\* C9: with the three uncertainty bounds at 0 every sampled value is its
\* nominal value, the trials of a width all pass or all fail, and every
\* percentage is 0 or 100.
C9_ZeroUncertainty ==
    ZeroUncertainty =>
        /\ (pc = "trial" /\ t >= 1) =>
              /\ gamma_r = Num(gamma)
              /\ Es_r = Num(Es)
              /\ P_r = Num(P)
              /\ safe_count \in {0, t}
        /\ \A k \in 1..Len(results) : results[k][2] \in {Num(0), Num(100)}
        /\ Stored => \A k \in 1..Len(mc) : mc[k][2] \in {Num(0), Num(100)}

\* C9 witness: with no uncertainty and more than one trial per width, a
\* stored result holds a width at 100 and a width at 0.
C9_Witness ==
    /\ ZeroUncertainty
    /\ iterations >= 2
    /\ pc = "stop"
    /\ Stored
    /\ \E j, k \in 1..Len(mc) : mc[j][2] = Num(100) /\ mc[k][2] = Num(0)

====
